---- MODULE Spec2Model ----
(***************************************************************************)
(* A model of the frontend-template starter application: the Root Layout   *)
(* and the metadata export of app/layout.tsx, the Home Page of             *)
(* app/page.tsx and the shared PageProps / LayoutProps types.  The         *)
(* framework that routes a request, renders the page, wraps it in the      *)
(* layout and answers is the application's environment.                    *)
(*                                                                         *)
(* A React node is a record [type, props, children]:                       *)
(*   - a host element has its tag as type ("html", "body", "main", ...),   *)
(*     its attributes as props and its child nodes, in order, as children; *)
(*   - a text node has type "#text" and its words, in order, as            *)
(*     props.value (JSX trims the line breaks and indentation around a     *)
(*     text, so the words are all that is rendered);                       *)
(*   - null, undefined and a boolean have types "#null", "#undefined" and  *)
(*     "#boolean" and render nothing;                                      *)
(*   - a fragment (an array of nodes) has type "#fragment".                *)
(*                                                                         *)
(* What an invocation returns is one operator (HomePage, RootLayout); what *)
(* it leaves in the objects it can reach, its arguments and the module     *)
(* scope metadata, is another (HomePageLeaves, RootLayoutLeaves, ...).     *)
(***************************************************************************)
EXTENDS Integers, Sequences, FiniteSets, TLC

VARIABLES
    metadata,   \* the module scope object exported by layout.tsx
    reqs,       \* the requests the framework is handling, by slot
    calls,      \* the component invocations made directly, in order
    candidate,  \* the value offered to the type checker
    verdict,    \* what the type checker said about candidate as PageProps
    layoutVerdict   \* what it said about candidate as LayoutProps

vars == <<metadata, reqs, calls, candidate, verdict, layoutVerdict>>

-----------------------------------------------------------------------------
(* Bounds *)

\* the number of requests the framework handles
MaxReq == 2
\* the number of direct component invocations recorded
MaxCalls == 3

-----------------------------------------------------------------------------
(* React nodes *)

NoProps == [k \in {} |-> ""]

Element(type, props, children) ==
    [type |-> type, props |-> props, children |-> children]

Text(words) == Element("#text", [value |-> words], <<>>)

Null == Element("#null", NoProps, <<>>)

Undefined == Element("#undefined", NoProps, <<>>)

Boolean(b) == Element("#boolean", [flag |-> b], <<>>)

Fragment(nodes) == Element("#fragment", NoProps, nodes)

\* what an invocation leaves behind when it raises instead of returning
Thrown == Element("#error", NoProps, <<>>)

\* the value of a field that has not been written yet
Unset == Element("#unset", NoProps, <<>>)

\* the tags of the host elements
HostTags == {"html", "body", "main", "h1", "h2", "h3", "h4", "h5", "h6",
             "p", "div", "span"}

HeadingTags == {"h1", "h2", "h3", "h4", "h5", "h6"}

\* the types of the nodes that are no host element
LeafTypes == {"#text", "#null", "#undefined", "#boolean"}

-----------------------------------------------------------------------------
(* The application *)

\* metadata with the title of another template left in
MetadataStaleTitle ==
    [title |-> "Create Next App",
     description |-> "Next.js frontend template with Tailwind CSS"]

\* export const metadata
MetadataInit ==
    [title |-> "Frontend Template",
     description |-> "Next.js frontend template with Tailwind CSS"]

\* HomePage with the heading rendered twice
HomePageTwoHeadings ==
    Element("main",
            [className |-> "flex min-h-screen flex-col items-center justify-center p-24"],
            << Element("h1", [className |-> "text-4xl font-bold"],
                       << Text(<<"Frontend", "Template">>) >>),
               Element("h1", [className |-> "text-4xl font-bold"],
                       << Text(<<"Frontend", "Template">>) >>),
               Element("p", [className |-> "mt-4 text-lg text-gray-600"],
                       << Text(<<"Next.js", "+", "React", "+", "Tailwind", "CSS">>) >>) >>)

\* HomePage telling a busy server from an idle one
HomePageBusy ==
    Element("main",
            [className |-> "flex min-h-screen flex-col items-center justify-center p-24"],
            << Element("h1", [className |-> "text-4xl font-bold"],
                       << Text(<<"Frontend", "Template">>) >>),
               Element("p", [className |-> "mt-4 text-lg text-gray-600"],
                       << Text(IF \E r1, r2 \in DOMAIN reqs :
                                      /\ r1 # r2
                                      /\ reqs[r1].pc # "idle"
                                      /\ reqs[r2].pc # "idle"
                               THEN <<"Next.js", "+", "React", "+", "Tailwind", "CSS",
                                      "(busy)">>
                               ELSE <<"Next.js", "+", "React", "+", "Tailwind", "CSS">>) >>) >>)

\* HomePage showing whether the request being rendered has a query string
HomePageEchoesQuery ==
    Element("main",
            [className |-> "flex min-h-screen flex-col items-center justify-center p-24"],
            << Element("h1", [className |-> "text-4xl font-bold"],
                       << Text(<<"Frontend", "Template">>) >>),
               Element("p", [className |-> "mt-4 text-lg text-gray-600"],
                       << Text(IF \E r \in DOMAIN reqs :
                                      /\ reqs[r].pc = "received"
                                      /\ DOMAIN reqs[r].props.fields.searchParams.resolved.fields
                                             # {}
                               THEN <<"Next.js", "+", "React", "+", "Tailwind", "CSS",
                                      "(filtered)">>
                               ELSE <<"Next.js", "+", "React", "+", "Tailwind", "CSS">>) >>) >>)

\* HomePage with a footer next to the heading and the paragraph
HomePageWithFooter ==
    Element("main",
            [className |-> "flex min-h-screen flex-col items-center justify-center p-24"],
            << Element("h1", [className |-> "text-4xl font-bold"],
                       << Text(<<"Frontend", "Template">>) >>),
               Element("p", [className |-> "mt-4 text-lg text-gray-600"],
                       << Text(<<"Next.js", "+", "React", "+", "Tailwind", "CSS">>) >>),
               Element("div", NoProps, << Text(<<"footer">>) >>) >>)

\* HomePage showing how many invocations were made before it
HomePageCounting ==
    Element("main",
            [className |-> "flex min-h-screen flex-col items-center justify-center p-24"],
            << Element("h1", [className |-> "text-4xl font-bold"],
                       << Text(<<"Frontend", "Template">>) >>),
               Element("p", [className |-> "mt-4 text-lg text-gray-600"],
                       << Text(IF Len(calls) = 0
                               THEN <<"Next.js", "+", "React", "+", "Tailwind", "CSS">>
                               ELSE <<"Next.js", "+", "React", "+", "Tailwind", "CSS",
                                      "again">>) >>) >>)

\* export default function HomePage()
HomePage ==
    Element("main",
            [className |-> "flex min-h-screen flex-col items-center justify-center p-24"],
            << Element("h1", [className |-> "text-4xl font-bold"],
                       << Text(<<"Frontend", "Template">>) >>),
               Element("p", [className |-> "mt-4 text-lg text-gray-600"],
                       << Text(<<"Next.js", "+", "React", "+", "Tailwind", "CSS">>) >>) >>)

\* RootLayout with an empty body
RootLayoutDropsChildren(props) ==
    Element("html", [lang |-> "en"],
            << Element("body", [className |-> "antialiased"], <<>>) >>)

\* RootLayout reading a property of children, which raises when there is none
RootLayoutThrowsOnEmpty(props) ==
    IF props.children.type \in {"#null", "#undefined"}
    THEN Thrown
    ELSE Element("html", [lang |-> "en"],
                 << Element("body", [className |-> "antialiased"],
                            << props.children >>) >>)

\* RootLayout styling the body only when it has content
RootLayoutStyleByChildren(props) ==
    Element("html", [lang |-> "en"],
            << Element("body",
                       IF props.children.type \in {"#null", "#undefined", "#boolean"}
                       THEN NoProps
                       ELSE [className |-> "antialiased"],
                       << props.children >>) >>)

\* RootLayout putting a container of its own around children
RootLayoutWrapsChildren(props) ==
    Element("html", [lang |-> "en"],
            << Element("body", [className |-> "antialiased"],
                       << Element("div", NoProps, << props.children >>) >>) >>)

\* RootLayout taking the language from a route parameter when there is one
RootLayoutLangFromParams(props) ==
    Element("html",
            [lang |-> IF "id" \in DOMAIN props.params.resolved.fields
                      THEN props.params.resolved.fields["id"].str
                      ELSE "en"],
            << Element("body", [className |-> "antialiased"],
                       << props.children >>) >>)

\* RootLayout numbering the documents it renders
RootLayoutCounting(props) ==
    Element("html", [lang |-> "en"],
            << Element("body",
                       [className |-> IF Len(calls) < 2 THEN "antialiased"
                                      ELSE "antialiased later"],
                       << props.children >>) >>)

\* RootLayout that raises whatever it is given
RootLayoutRaises(props) == Thrown

\* RootLayout without the language attribute
RootLayoutNoLang(props) ==
    Element("html", NoProps,
            << Element("body", [className |-> "antialiased"],
                       << props.children >>) >>)

\* RootLayout putting a notice in the body when children holds nothing
RootLayoutNoticeOnEmpty(props) ==
    Element("html", [lang |-> "en"],
            << Element("body", [className |-> "antialiased"],
                       IF props.children.type \in {"#null", "#undefined"}
                          \/ props.children = Fragment(<<>>)
                       THEN << Text(<<"Nothing", "to", "show">>) >>
                       ELSE << props.children >>) >>)

\* RootLayout rendering children a second time after the first
RootLayoutRepeatsChildren(props) ==
    Element("html", [lang |-> "en"],
            << Element("body", [className |-> "antialiased"],
                       << props.children, props.children >>) >>)

\* export default function RootLayout({ children })
RootLayout(props) ==
    Element("html", [lang |-> "en"],
            << Element("body", [className |-> "antialiased"],
                       << props.children >>) >>)

\* the module scope object after an invocation of HomePage: no statement of
\* the function assigns to it
HomePageLeavesMetadata(md) == md

\* a RootLayout that sets the title as it renders
RootLayoutRetitles(md) == [md EXCEPT !.title = "Home"]

\* the module scope object after an invocation of RootLayout: no statement
\* of the function assigns to it
RootLayoutLeavesMetadata(md) == md

\* the object HomePage is invoked with, after the invocation: the function
\* declares no parameter and so cannot reach it
HomePageLeaves(props) == props

\* a RootLayout that clears children once it has placed it
RootLayoutClearsChildren(props) == [props EXCEPT !.children = Null]

\* the object RootLayout is invoked with, after the invocation: the function
\* reads props.children and assigns nothing
RootLayoutLeaves(props) == props

-----------------------------------------------------------------------------
(* JavaScript values, as far as the shared types tell them apart *)

Str(s) == [t |-> "string", str |-> s]

Num(n) == [t |-> "number", num |-> n]

Undef == [t |-> "undefined"]

Arr(elems) == [t |-> "array", elems |-> elems]

\* an object: fields is a function from the names of its properties
Obj(fields) == [t |-> "object", fields |-> fields]

\* a deferred value that resolves to v
Promise(v) == [t |-> "promise", resolved |-> v]

NoFields == [k \in {} |-> Undef]

-----------------------------------------------------------------------------
(* The framework: one request per slot, routed by the files under app/ *)

Slots == 1..MaxReq

\* the paths requested: the root and one no page file matches
Paths == {"/", "/about"}

\* the routes with a second page file, app/about/page.tsx, left in
RoutesWithAbout == {"/", "/about"}

\* app/page.tsx is the only page file: it serves the root
Routes == {"/"}

\* the query strings requested: none, ?q=a, ?q=a&q=b
Queries ==
    { NoFields,
      [k \in {"q"} |-> Str("a")],
      [k \in {"q"} |-> Arr(<<Str("a"), Str("b")>>)] }

\* what the framework hands a page for a request: no route has a dynamic
\* segment, so params resolves to the empty mapping
PageInputs(query) ==
    Obj([params |-> Promise(Obj(NoFields)), searchParams |-> Promise(Obj(query))])

\* the content the framework renders for a path no page file matches
NotFoundPage == Element("div", NoProps, << Text(<<"404">>) >>)

NoResponse ==
    [status |-> 0, head |-> [title |-> "", description |-> ""], body |-> Unset]

NoRequest ==
    [pc |-> "idle", path |-> "", props |-> Undef, pageOut |-> Unset,
     layoutCalls |-> 0, layoutOut |-> Unset, response |-> NoResponse]

\* a request arrives: its inputs are constructed fresh
Receive(r, path, query) ==
    /\ reqs[r].pc = "idle"
    /\ reqs' = [reqs EXCEPT ![r] = [NoRequest EXCEPT !.pc = "received",
                                                      !.path = path,
                                                      !.props = PageInputs(query)]]
    /\ UNCHANGED <<metadata, calls, candidate, verdict, layoutVerdict>>

\* the matched page is rendered: HomePage for the root
RenderPage(r) ==
    /\ reqs[r].pc = "received"
    /\ reqs' = [reqs EXCEPT ![r].pc = "page",
                            ![r].pageOut = IF reqs[r].path \in Routes
                                           THEN HomePage
                                           ELSE NotFoundPage,
                            ![r].props = IF reqs[r].path \in Routes
                                         THEN HomePageLeaves(reqs[r].props)
                                         ELSE reqs[r].props]
    /\ metadata' = IF reqs[r].path \in Routes
                   THEN HomePageLeavesMetadata(metadata)
                   ELSE metadata
    /\ UNCHANGED <<calls, candidate, verdict, layoutVerdict>>

\* the layout is instantiated with the page's output as its children
RenderLayout(r) ==
    /\ reqs[r].pc = "page"
    /\ LET input == [children |-> reqs[r].pageOut,
                     params |-> reqs[r].props.fields.params]
           left == RootLayoutLeaves(input)
       IN reqs' = [reqs EXCEPT ![r].pc = "layout",
                               ![r].layoutCalls = @ + 1,
                               ![r].layoutOut = RootLayout(input),
                               ![r].pageOut = left.children,
                               ![r].props.fields.params = left.params]
    /\ metadata' = RootLayoutLeavesMetadata(metadata)
    /\ UNCHANGED <<calls, candidate, verdict, layoutVerdict>>

\* the response: the layout's output, with the metadata in its head
Respond(r) ==
    /\ reqs[r].pc = "layout"
    /\ reqs' = [reqs EXCEPT ![r].pc = "responded",
                            ![r].response =
                                [status |-> IF reqs[r].path \in Routes THEN 200 ELSE 404,
                                 head |-> metadata,
                                 body |-> reqs[r].layoutOut]]
    /\ UNCHANGED <<metadata, calls, candidate, verdict, layoutVerdict>>

Init ==
    /\ metadata = MetadataInit
    /\ reqs = [r \in Slots |-> NoRequest]
    /\ calls = <<>>
    /\ candidate = Undef
    /\ verdict = "unchecked"
    /\ layoutVerdict = "unchecked"

Next ==
    \/ \E r \in Slots, path \in Paths, query \in Queries : Receive(r, path, query)
    \/ \E r \in Slots : RenderPage(r)
    \/ \E r \in Slots : RenderLayout(r)
    \/ \E r \in Slots : Respond(r)

Spec == Init /\ [][Next]_vars

\* the framework carries every request it has received through to its answer:
\* no step of a request waits for anything but the step before it
FairSpec ==
    /\ Spec
    /\ \A r \in Slots :
           /\ WF_vars(RenderPage(r))
           /\ WF_vars(RenderLayout(r))
           /\ WF_vars(Respond(r))

-----------------------------------------------------------------------------
(* The components invoked directly, with any input their types admit *)

\* values of React.ReactNode handed to the layout as children
Renderables ==
    { Null,
      Undefined,
      Boolean(FALSE),
      Text(<<"hello">>),
      Fragment(<<>>),
      Fragment(<< Text(<<"a">>), Element("span", NoProps, << Text(<<"b">>) >>) >>),
      Element("div", [className |-> "box"], << Text(<<"nested">>) >>),
      NotFoundPage,
      HomePage }

\* values of Promise<Record<string, string>> handed to the layout as params
RouteParams ==
    { Promise(Obj(NoFields)),
      Promise(Obj([k \in {"id"} |-> Str("7")])) }

LayoutInputs == [children : Renderables, params : RouteParams]

\* HomePage takes no input
NoInput == [children |-> Unset, params |-> Undef]

CallHomePage ==
    /\ Len(calls) < MaxCalls
    /\ calls' = Append(calls, [fn |-> "HomePage", props |-> NoInput,
                               result |-> HomePage,
                               left |-> HomePageLeaves(NoInput)])
    /\ metadata' = HomePageLeavesMetadata(metadata)
    /\ UNCHANGED <<reqs, candidate, verdict, layoutVerdict>>

CallRootLayout(props) ==
    /\ Len(calls) < MaxCalls
    /\ calls' = Append(calls, [fn |-> "RootLayout", props |-> props,
                               result |-> RootLayout(props),
                               left |-> RootLayoutLeaves(props)])
    /\ metadata' = RootLayoutLeavesMetadata(metadata)
    /\ UNCHANGED <<reqs, candidate, verdict, layoutVerdict>>

ComponentNext ==
    \/ CallHomePage
    \/ \E props \in LayoutInputs : CallRootLayout(props)

ComponentSpec == Init /\ [][ComponentNext]_vars

-----------------------------------------------------------------------------
(* The shared types, as the type checker decides them *)

IsString(v) == v.t = "string"

IsUndefined(v) == v.t = "undefined"

\* string[]
IsStringArray(v) ==
    /\ v.t = "array"
    /\ \A i \in DOMAIN v.elems : IsString(v.elems[i])

\* Promise<...>
IsPromise(v) == v.t = "promise"

\* Record<string, string>
IsStringRecord(v) ==
    /\ v.t = "object"
    /\ \A k \in DOMAIN v.fields : IsString(v.fields[k])

\* string | string[] | undefined
IsQueryValue(v) == IsString(v) \/ IsStringArray(v) \/ IsUndefined(v)

\* Record<string, string | string[] | undefined>
IsQueryRecord(v) ==
    /\ v.t = "object"
    /\ \A k \in DOMAIN v.fields : IsQueryValue(v.fields[k])

\* PageProps with params: Promise<Record<string, unknown>>
PagePropsLooseParams(v) ==
    /\ v.t = "object"
    /\ {"params", "searchParams"} \subseteq DOMAIN v.fields
    /\ IsPromise(v.fields.params)
    /\ v.fields.params.resolved.t = "object"
    /\ IsPromise(v.fields.searchParams)
    /\ IsQueryRecord(v.fields.searchParams.resolved)

\* PageProps with searchParams declared optional (searchParams?: ...)
PagePropsOptionalQuery(v) ==
    /\ v.t = "object"
    /\ "params" \in DOMAIN v.fields
    /\ IsPromise(v.fields.params)
    /\ IsStringRecord(v.fields.params.resolved)
    /\ "searchParams" \in DOMAIN v.fields =>
           /\ IsPromise(v.fields.searchParams)
           /\ IsQueryRecord(v.fields.searchParams.resolved)

\* interface PageProps
PageProps(v) ==
    /\ v.t = "object"
    /\ {"params", "searchParams"} \subseteq DOMAIN v.fields
    /\ IsPromise(v.fields.params)
    /\ IsStringRecord(v.fields.params.resolved)
    /\ IsPromise(v.fields.searchParams)
    /\ IsQueryRecord(v.fields.searchParams.resolved)

\* React.ReactNode, among the values offered as children: a string, a number,
\* undefined, or an array of these (objects and promises are not offered)
IsReactNode(v) ==
    \/ v.t \in {"string", "number", "undefined"}
    \/ /\ v.t = "array"
       /\ \A i \in DOMAIN v.elems : v.elems[i].t \in {"string", "number", "undefined"}

\* LayoutProps with params: Record<string, string>, not deferred
LayoutPropsPlainParams(v) ==
    /\ v.t = "object"
    /\ {"children", "params"} \subseteq DOMAIN v.fields
    /\ IsReactNode(v.fields.children)
    /\ IsStringRecord(v.fields.params)

\* interface LayoutProps
LayoutProps(v) ==
    /\ v.t = "object"
    /\ {"children", "params"} \subseteq DOMAIN v.fields
    /\ IsReactNode(v.fields.children)
    /\ IsPromise(v.fields.params)
    /\ IsStringRecord(v.fields.params.resolved)

\* the values a property of a mapping is given
PropertyValues ==
    { Str("x"), Num(1), Undef, Arr(<<>>), Arr(<<Str("x")>>),
      Arr(<<Str("x"), Num(1)>>) }

\* the mappings: empty, or one property
Mappings ==
    { Obj(NoFields) } \cup { Obj([k \in {"a"} |-> v]) : v \in PropertyValues }

\* what a field of the candidate holds: a mapping or a string, deferred or not
FieldValues ==
    Mappings \cup { Promise(m) : m \in Mappings } \cup { Str("x"), Promise(Str("x")) }

\* the values offered as PageProps: objects with both fields, with one, with none
Candidates ==
    { Obj([params |-> p, searchParams |-> q]) : p \in FieldValues, q \in FieldValues }
    \cup { Obj([k \in {"params"} |-> p]) : p \in FieldValues }
    \cup { Obj([k \in {"searchParams"} |-> q]) : q \in FieldValues }
    \cup { Obj(NoFields), Str("x") }

\* the values offered as children of a LayoutProps
ChildrenValues == { Str("x"), Undef, Arr(<<Str("x"), Num(1)>>) }

\* the values offered as LayoutProps: objects with children and params, and
\* with children alone (those without children are among Candidates)
LayoutCandidates ==
    { Obj([children |-> c, params |-> p]) : c \in ChildrenValues, p \in FieldValues }
    \cup { Obj([k \in {"children"} |-> c]) : c \in ChildrenValues }

TypeInit ==
    /\ metadata = MetadataInit
    /\ reqs = [r \in Slots |-> NoRequest]
    /\ calls = <<>>
    /\ candidate \in Candidates \cup LayoutCandidates
    /\ verdict = "unchecked"
    /\ layoutVerdict = "unchecked"

\* the candidate is checked against PageProps
CheckPageProps ==
    /\ verdict = "unchecked"
    /\ verdict' = IF PageProps(candidate) THEN "accepted" ELSE "rejected"
    /\ UNCHANGED <<metadata, reqs, calls, candidate, layoutVerdict>>

\* the candidate is checked against LayoutProps
CheckLayoutProps ==
    /\ layoutVerdict = "unchecked"
    /\ layoutVerdict' = IF LayoutProps(candidate) THEN "accepted" ELSE "rejected"
    /\ UNCHANGED <<metadata, reqs, calls, candidate, verdict>>

TypeNext == CheckPageProps \/ CheckLayoutProps

TypeSpec == TypeInit /\ [][TypeNext]_vars

-----------------------------------------------------------------------------
(* Reading a rendered tree *)

RECURSIVE Descendants(_), DescendantsOfAll(_)
\* the node and every node below it, in document order
Descendants(node) == <<node>> \o DescendantsOfAll(node.children)

DescendantsOfAll(nodes) ==
    IF nodes = <<>> THEN <<>>
    ELSE Descendants(Head(nodes)) \o DescendantsOfAll(Tail(nodes))

RECURSIVE TextOf(_), TextOfAll(_)
\* the words rendered by the node and the nodes below it, in document order
TextOf(node) ==
    IF node.type = "#text" THEN node.props.value ELSE TextOfAll(node.children)

TextOfAll(nodes) ==
    IF nodes = <<>> THEN <<>>
    ELSE TextOf(Head(nodes)) \o TextOfAll(Tail(nodes))

\* words occurs in text as a contiguous run
Contains(text, words) ==
    \E i \in 1..(Len(text) - Len(words) + 1) :
        SubSeq(text, i, i + Len(words) - 1) = words

\* the elements below (or at) node with one of the tags, in document order
ElementsOf(node, tags) ==
    SelectSeq(Descendants(node), LAMBDA n : n.type \in tags)

HeadingText == <<"Frontend", "Template">>

ParagraphText == <<"Next.js", "+", "React", "+", "Tailwind", "CSS">>

\* the requests whose page has been rendered
PageRendered(r) == reqs[r].pc \in {"page", "layout", "responded"}

-----------------------------------------------------------------------------
(* C1: for every request to the root route, the Home Page output holds      *)
(* exactly one heading element whose text is "Frontend Template" and        *)
(* exactly one paragraph element whose text contains                        *)
(* "Next.js + React + Tailwind CSS".                                        *)
C1_OneHeadingOneParagraph ==
    \A r \in Slots :
        (PageRendered(r) /\ reqs[r].path = "/") =>
            /\ Len(SelectSeq(ElementsOf(reqs[r].pageOut, HeadingTags),
                             LAMBDA h : TextOf(h) = HeadingText)) = 1
            /\ Len(SelectSeq(ElementsOf(reqs[r].pageOut, {"p"}),
                             LAMBDA e : Contains(TextOf(e), ParagraphText))) = 1

\* a request to the root whose page has just been rendered
C1_Witness ==
    \E r \in Slots :
        /\ reqs[r].pc = "page"
        /\ reqs[r].path = "/"
        /\ reqs[r].pageOut # Unset

(* C2: for any children value V, RootLayout({ children: V }) is a document  *)
(* with one body element, and V itself, unchanged, is a child of that body. *)
C2_BodyContainsChildren ==
    \A i \in DOMAIN calls :
        calls[i].fn = "RootLayout" =>
            LET own == SelectSeq(calls[i].result.children, LAMBDA n : n.type = "body")
            IN /\ Len(own) = 1
               /\ \E j \in DOMAIN own[1].children :
                      own[1].children[j] = calls[i].props.children

\* RootLayout was invoked with a tree of several levels as children
C2_Witness ==
    \E i \in DOMAIN calls :
        /\ calls[i].fn = "RootLayout"
        /\ calls[i].props.children = HomePage
        /\ calls[i].result # Unset

(* C3: in every state, whatever routes and queries have been rendered, the  *)
(* declared metadata has exactly the two fields title = "Frontend Template" *)
(* and description = "Next.js frontend template with Tailwind CSS".         *)
C3_MetadataFixed ==
    /\ DOMAIN metadata = {"title", "description"}
    /\ metadata.title = "Frontend Template"
    /\ metadata.description = "Next.js frontend template with Tailwind CSS"

\* renders of both routes, with different queries, have been answered
C3_Witness ==
    \E r1, r2 \in Slots :
        /\ reqs[r1].pc = "responded" /\ reqs[r1].path = "/"
        /\ reqs[r2].pc = "responded" /\ reqs[r2].path = "/about"
        /\ reqs[r1].props # reqs[r2].props

(* C4: a GET to "/" is answered with status 200 and a body that is an html  *)
(* element declaring lang "en", below which a heading reads "Frontend       *)
(* Template" and a paragraph reads "Next.js + React + Tailwind CSS".        *)
C4_RootScenario ==
    \A r \in Slots :
        (reqs[r].pc = "responded" /\ reqs[r].path = "/") =>
            LET body == reqs[r].response.body
            IN /\ reqs[r].response.status = 200
               /\ body.type = "html"
               /\ "lang" \in DOMAIN body.props
               /\ body.props.lang = "en"
               /\ \E i \in DOMAIN ElementsOf(body, HeadingTags) :
                      Contains(TextOf(ElementsOf(body, HeadingTags)[i]), HeadingText)
               /\ \E i \in DOMAIN ElementsOf(body, {"p"}) :
                      Contains(TextOf(ElementsOf(body, {"p"})[i]), ParagraphText)

\* a GET to "/" with a query string has been answered
C4_Witness ==
    \E r \in Slots :
        /\ reqs[r].pc = "responded"
        /\ reqs[r].path = "/"
        /\ reqs[r].props.fields.searchParams.resolved.fields # NoFields

(* C5: every invocation of HomePage returns what its first invocation       *)
(* returned, whatever was invoked in between.                               *)
C5_HomePageRepeatable ==
    \A i, j \in DOMAIN calls :
        (calls[i].fn = "HomePage" /\ calls[j].fn = "HomePage" /\ i <= j
         /\ \A k \in 1..(i - 1) : calls[k].fn # "HomePage") =>
            calls[j].result = calls[i].result

\* HomePage has been invoked three times in a row
C5_Witness ==
    /\ Len(calls) >= 3
    /\ \A i \in 1..3 : calls[i].fn = "HomePage"

-----------------------------------------------------------------------------
\* what awaiting v yields
Resolved(v) == IF v.t = "promise" THEN v.resolved ELSE v

\* the shape C6 asks of a PageInputs value, once its fields are resolved
C6_Shape(c) ==
    /\ c.t = "object"
    /\ "params" \in DOMAIN c.fields
    /\ "searchParams" \in DOMAIN c.fields
    /\ LET rp == Resolved(c.fields.params)
           qp == Resolved(c.fields.searchParams)
       IN /\ rp.t = "object"
          /\ \A k \in DOMAIN rp.fields : rp.fields[k].t = "string"
          /\ qp.t = "object"
          /\ \A k \in DOMAIN qp.fields :
                 \/ qp.fields[k].t = "string"
                 \/ qp.fields[k].t = "undefined"
                 \/ /\ qp.fields[k].t = "array"
                    /\ \A i \in 1..Len(qp.fields[k].elems) :
                           qp.fields[k].elems[i].t = "string"

(* C6: a value is accepted as PageProps only if, with its deferred fields   *)
(* resolved, params maps strings to strings and searchParams maps strings   *)
(* to a string, a sequence of strings or undefined; every value that is not *)
(* of this shape is rejected.                                               *)
C6_ShapeChecked ==
    verdict # "unchecked" =>
        /\ verdict = "accepted" => C6_Shape(candidate)
        /\ ~C6_Shape(candidate) => verdict = "rejected"

\* a value with a route parameter that is no string has been rejected
C6_Witness ==
    /\ verdict = "rejected"
    /\ candidate = Obj([params |-> Promise(Obj([k \in {"a"} |-> Num(1)])),
                        searchParams |-> Promise(Obj(NoFields))])

(* C7: every invocation of RootLayout and of HomePage returns: its result   *)
(* is an element, and every node below it is a renderable one.              *)
C7_Total ==
    \A i \in DOMAIN calls :
        /\ calls[i].result # Thrown
        /\ calls[i].result.type \in HostTags
        /\ \A k \in DOMAIN Descendants(calls[i].result) :
               Descendants(calls[i].result)[k].type
                   \in HostTags \cup LeafTypes \cup {"#fragment"}

\* HomePage has returned, and so has RootLayout given null as children
C7_Witness ==
    /\ \E i \in DOMAIN calls : calls[i].fn = "HomePage"
    /\ \E i \in DOMAIN calls :
           /\ calls[i].fn = "RootLayout"
           /\ calls[i].props.children = Null

\* the document with the content of its body taken out
ShellOf(doc) ==
    [doc EXCEPT !.children =
        [i \in 1..Len(doc.children) |-> [doc.children[i] EXCEPT !.children = <<>>]]]

FixedShell ==
    Element("html", [lang |-> "en"],
            << Element("body", [className |-> "antialiased"], <<>>) >>)

(* C8: whatever children is, RootLayout's output is the same shell, an html *)
(* element with lang "en" holding a body element with the class             *)
(* "antialiased", and children is in that body as it was passed.            *)
C8_FixedShell ==
    \A i \in DOMAIN calls :
        calls[i].fn = "RootLayout" =>
            /\ ShellOf(calls[i].result) = FixedShell
            /\ \A j \in DOMAIN calls :
                   calls[j].fn = "RootLayout" =>
                       ShellOf(calls[j].result) = ShellOf(calls[i].result)
            /\ \E k \in DOMAIN calls[i].result.children[1].children :
                   calls[i].result.children[1].children[k] = calls[i].props.children

\* RootLayout has been invoked with an element and with nothing to render
C8_Witness ==
    \E i, j \in DOMAIN calls :
        /\ calls[i].fn = "RootLayout" /\ calls[i].props.children = NotFoundPage
        /\ calls[j].fn = "RootLayout" /\ calls[j].props.children = Undefined

\* what a step of request r may write: nothing but that request's own record
OwnStateOnly ==
    \A r \in Slots :
        reqs'[r] # reqs[r] =>
            /\ \A q \in Slots \ {r} : reqs'[q] = reqs[q]
            /\ metadata' = metadata

\* two requests with the same inputs, as far along as each other, are in the
\* same state, whatever was handled before or between their steps
SameInputsSameState ==
    \A r1, r2 \in Slots :
        (/\ reqs[r1].pc = reqs[r2].pc
         /\ reqs[r1].path = reqs[r2].path
         /\ reqs[r1].props = reqs[r2].props) => reqs[r1] = reqs[r2]

(* C9: requests are independent: in every interleaving a request's renders  *)
(* and response are those of any other request with the same inputs, among  *)
(* them the one handled alone, and a step of one request writes no state of *)
(* another.                                                                 *)
C9_Independent == [][OwnStateOnly]_vars /\ []SameInputsSameState

\* two requests to the root with the same query have both been answered
C9_Witness ==
    \E r1, r2 \in Slots :
        /\ r1 # r2
        /\ reqs[r1].pc = "responded" /\ reqs[r2].pc = "responded"
        /\ reqs[r1].path = "/" /\ reqs[r2].path = "/"
        /\ reqs[r1].props = reqs[r2].props

\* the layout is instantiated for r only once r's page output exists, and
\* with that output in its body
LayoutAfterPage ==
    \A r \in Slots :
        reqs'[r].layoutCalls # reqs[r].layoutCalls =>
            /\ reqs'[r].layoutCalls = reqs[r].layoutCalls + 1
            /\ reqs[r].pageOut # Unset
            /\ reqs'[r].pageOut = reqs[r].pageOut
            /\ reqs'[r].layoutOut =
                   [FixedShell EXCEPT !.children[1].children = << reqs[r].pageOut >>]

\* an answered request had the layout instantiated once, and its response is
\* the shell around its own page output
OnceAndEmbedded ==
    \A r \in Slots :
        /\ reqs[r].layoutCalls <= 1
        /\ reqs[r].pc \in {"layout", "responded"} => reqs[r].layoutCalls = 1
        /\ reqs[r].pc = "responded" =>
               /\ reqs[r].path \in Routes => reqs[r].pageOut = HomePage
               /\ reqs[r].response.body =
                      [FixedShell EXCEPT !.children[1].children = << reqs[r].pageOut >>]

(* C10: for each request the layout is instantiated exactly once, with the  *)
(* output the page produced for that request as its children, and the       *)
(* response is the layout's shell with that output in its body.             *)
C10_LayoutOncePerRequest == [][LayoutAfterPage]_vars /\ []OnceAndEmbedded

\* a request to the root answered, after one instantiation of the layout
C10_Witness ==
    \E r \in Slots :
        /\ reqs[r].pc = "responded"
        /\ reqs[r].path = "/"
        /\ reqs[r].layoutCalls = 1
        /\ reqs[r].response.body.children[1].children = << HomePage >>

\* the node occurs in the tree
OccursIn(node, tree) ==
    \E k \in DOMAIN Descendants(tree) : Descendants(tree)[k] = node

(* C11: the root is the only route served: an answered request to "/" has   *)
(* status 200 and the Home Page's output inside the Root Layout's shell,    *)
(* and an answered request to any other path has no success status and      *)
(* nothing of the Home Page in its body.                                    *)
C11_OnlyRootServed ==
    \A r \in Slots :
        reqs[r].pc = "responded" =>
            /\ reqs[r].path = "/" =>
                   /\ reqs[r].response.status = 200
                   /\ reqs[r].response.body =
                          [FixedShell EXCEPT !.children[1].children = << HomePage >>]
            /\ reqs[r].path # "/" =>
                   /\ reqs[r].response.status # 200
                   /\ reqs[r].pageOut # HomePage
                   /\ ~OccursIn(HomePage, reqs[r].response.body)
                   /\ \A k \in DOMAIN HomePage.children :
                          ~OccursIn(HomePage.children[k], reqs[r].response.body)

\* a request to a path other than the root has been answered
C11_Witness ==
    \E r \in Slots :
        /\ reqs[r].pc = "responded"
        /\ reqs[r].path = "/about"
        /\ reqs[r].response.status = 404

(* C12: the metadata is immutable configuration: no step of any request,    *)
(* and so no invocation of RootLayout or HomePage in any interleaving,      *)
(* changes its title or its description.                                    *)
C12_MetadataUnchanged ==
    [][/\ metadata'.title = metadata.title
       /\ metadata'.description = metadata.description
       /\ metadata' = metadata]_vars

\* both components have been invoked, for two requests handled interleaved
C12_Witness ==
    \E r1, r2 \in Slots :
        /\ reqs[r1].pc = "layout" /\ reqs[r1].path = "/"
        /\ reqs[r2].pc = "page" /\ reqs[r2].path = "/"
        /\ metadata = MetadataInit

(* C13: RootLayout is given children and params and uses children alone:    *)
(* two invocations with the same children and different params return the   *)
(* same document.                                                           *)
C13_ParamsUnused ==
    \A i, j \in DOMAIN calls :
        (/\ calls[i].fn = "RootLayout"
         /\ calls[j].fn = "RootLayout"
         /\ calls[i].props.children = calls[j].props.children
         /\ calls[i].props.params # calls[j].props.params) =>
            /\ DOMAIN calls[i].props = {"children", "params"}
            /\ DOMAIN calls[j].props = {"children", "params"}
            /\ calls[i].result = calls[j].result

\* RootLayout has been invoked with the same children and two route mappings
C13_Witness ==
    \E i, j \in DOMAIN calls :
        /\ calls[i].fn = "RootLayout" /\ calls[j].fn = "RootLayout"
        /\ calls[i].props.children = calls[j].props.children
        /\ calls[i].props.params = Promise(Obj(NoFields))
        /\ calls[j].props.params = Promise(Obj([k \in {"id"} |-> Str("7")]))

(* C14: the Home Page ignores what the request carries: two requests to "/" *)
(* with different route or query parameters get the same page output.       *)
C14_QueryIgnored ==
    \A r1, r2 \in Slots :
        (/\ PageRendered(r1) /\ reqs[r1].path = "/"
         /\ PageRendered(r2) /\ reqs[r2].path = "/"
         /\ reqs[r1].props # reqs[r2].props) =>
            reqs[r1].pageOut = reqs[r2].pageOut

\* the page has been rendered for "/" and for "/?q=a&q=b"
C14_Witness ==
    \E r1, r2 \in Slots :
        /\ PageRendered(r1) /\ reqs[r1].path = "/"
        /\ PageRendered(r2) /\ reqs[r2].path = "/"
        /\ reqs[r1].props = PageInputs(NoFields)
        /\ reqs[r2].props = PageInputs([k \in {"q"} |-> Arr(<<Str("a"), Str("b")>>)])

\* the PageProps value whose two fields resolve to empty mappings
EmptyPageInputs ==
    Obj([params |-> Promise(Obj(NoFields)), searchParams |-> Promise(Obj(NoFields))])

(* C15: a value accepted as PageProps has both fields, params and           *)
(* searchParams; the value whose two fields resolve to empty mappings is    *)
(* accepted, and an object with either field missing is rejected.           *)
C15_BothFieldsPresent ==
    verdict # "unchecked" =>
        /\ verdict = "accepted" =>
               /\ "params" \in DOMAIN candidate.fields
               /\ "searchParams" \in DOMAIN candidate.fields
        /\ candidate = EmptyPageInputs => verdict = "accepted"
        /\ (/\ candidate.t = "object"
            /\ \/ "params" \notin DOMAIN candidate.fields
               \/ "searchParams" \notin DOMAIN candidate.fields) =>
               verdict = "rejected"

\* the value with two empty mappings has been accepted
C15_Witness ==
    /\ verdict = "accepted"
    /\ candidate = EmptyPageInputs

\* a step leaves the inputs of every request in hand as they were: the route
\* and query parameters, and the children once the page has produced it
InputsKept ==
    \A r \in Slots :
        reqs[r].pc # "idle" =>
            /\ reqs'[r].props.fields.params = reqs[r].props.fields.params
            /\ reqs'[r].props.fields.searchParams = reqs[r].props.fields.searchParams
            /\ reqs'[r].props = reqs[r].props
            /\ reqs[r].pageOut # Unset => reqs'[r].pageOut = reqs[r].pageOut

(* C16: the inputs the framework supplies are read-only: no invocation of   *)
(* RootLayout or HomePage changes the route parameters, the query           *)
(* parameters or the children of the request it serves.                     *)
C16_InputsReadOnly == [][InputsKept]_vars

\* the layout has rendered a request that came with a query string, and the
\* request still has the inputs it came with
C16_Witness ==
    \E r \in Slots :
        /\ reqs[r].pc = "layout"
        /\ reqs[r].props = PageInputs([k \in {"q"} |-> Str("a")])
        /\ reqs[r].pageOut = HomePage
        /\ reqs[r].layoutOut # Unset

\* how far a request has come
Progress(pc) ==
    CASE pc = "idle" -> 0
      [] pc = "received" -> 1
      [] pc = "page" -> 2
      [] pc = "layout" -> 3
      [] pc = "responded" -> 4

\* a step takes a request one stage further or leaves it: none is repeated
NoRetry ==
    \A r \in Slots :
        \/ reqs'[r].pc = reqs[r].pc
        \/ Progress(reqs'[r].pc) = Progress(reqs[r].pc) + 1

\* the request has its answer: the document the layout returned
Answered(r) ==
    /\ reqs[r].pc = "responded"
    /\ reqs[r].response.status = 200
    /\ reqs[r].response.body.type = "html"
    /\ OccursIn(HomePage, reqs[r].response.body)

(* C17: every request to "/" that has been received is eventually answered  *)
(* with the rendered document, and it gets there in one pass: page, layout, *)
(* response, no stage entered twice.                                        *)
C17_EventuallyAnswered ==
    /\ [][NoRetry]_vars
    /\ \A r \in Slots :
           (reqs[r].pc = "received" /\ reqs[r].path = "/") ~> Answered(r)

\* a request to "/" has been answered while another is still waiting
C17_Witness ==
    \E r1, r2 \in Slots :
        /\ Answered(r1)
        /\ reqs[r2].pc = "received" /\ reqs[r2].path = "/"

(* C18: the Home Page output is one container (flex column, full height,    *)
(* centered, padded) holding exactly a heading with the fixed heading text  *)
(* and a paragraph with the fixed paragraph text, in this order and nothing *)
(* else; the paragraph has its own style (top margin, larger font, muted    *)
(* color), which is not the heading's.                                      *)
C18_PageStructure ==
    \A i \in DOMAIN calls :
        calls[i].fn = "HomePage" =>
            LET page == calls[i].result
            IN /\ page.type = "main"
               /\ page.props =
                      [className |->
                          "flex min-h-screen flex-col items-center justify-center p-24"]
               /\ Len(page.children) = 2
               /\ page.children[1].type \in HeadingTags
               /\ page.children[1].children = << Text(HeadingText) >>
               /\ page.children[2].type = "p"
               /\ page.children[2].children = << Text(ParagraphText) >>
               /\ page.children[2].props = [className |-> "mt-4 text-lg text-gray-600"]
               /\ page.children[2].props # page.children[1].props

\* HomePage has been invoked after the layout was
C18_Witness ==
    \E i, j \in DOMAIN calls :
        /\ i < j
        /\ calls[i].fn = "RootLayout"
        /\ calls[j].fn = "HomePage"
        /\ calls[j].result.type = "main"

\* the candidate's params, put into an otherwise empty PageProps value
AsPageInputs(c) ==
    Obj([params |-> c.fields.params, searchParams |-> Promise(Obj(NoFields))])

(* C19: params has one contract in both interfaces: a value with children   *)
(* is accepted as LayoutProps exactly when its params is accepted as the    *)
(* params of a PageProps, and every accepted LayoutProps has both children  *)
(* and params.                                                              *)
C19_SameParamsContract ==
    layoutVerdict # "unchecked" =>
        /\ layoutVerdict = "accepted" =>
               /\ "children" \in DOMAIN candidate.fields
               /\ "params" \in DOMAIN candidate.fields
               /\ PageProps(AsPageInputs(candidate))
        /\ (/\ candidate.t = "object"
            /\ "children" \in DOMAIN candidate.fields
            /\ "params" \in DOMAIN candidate.fields
            /\ PageProps(AsPageInputs(candidate))) => layoutVerdict = "accepted"
        /\ (/\ candidate.t = "object"
            /\ "params" \in DOMAIN candidate.fields
            /\ ~PageProps(AsPageInputs(candidate))) => layoutVerdict = "rejected"

\* a value with children and a deferred route mapping has been accepted as
\* LayoutProps
C19_Witness ==
    /\ layoutVerdict = "accepted"
    /\ candidate = Obj([children |-> Str("x"),
                        params |-> Promise(Obj([k \in {"a"} |-> Str("x")]))])

(* C20: RootLayout is deterministic in children: an invocation returns what *)
(* every earlier invocation with the same children returned, whatever was   *)
(* rendered in between.                                                     *)
C20_LayoutDeterministic ==
    \A i, j \in DOMAIN calls :
        (/\ i < j
         /\ calls[i].fn = "RootLayout"
         /\ calls[j].fn = "RootLayout"
         /\ calls[i].props.children = calls[j].props.children) =>
            calls[j].result = calls[i].result

\* RootLayout has been invoked twice with the same children, with a render
\* of other content in between
C20_Witness ==
    /\ Len(calls) >= 3
    /\ calls[1].fn = "RootLayout"
    /\ calls[3].fn = "RootLayout"
    /\ calls[1].props.children = calls[3].props.children
    /\ calls[2].fn = "RootLayout"
    /\ calls[2].props.children # calls[1].props.children

\* how many nodes of the tree are the node
Occurrences(node, tree) ==
    Cardinality({ k \in DOMAIN Descendants(tree) : Descendants(tree)[k] = node })

(* C21: in every output of RootLayout the root element has one child, the   *)
(* body; the body has one child, the children value as it was passed; and   *)
(* that value occurs nowhere else in the output: it is not duplicated and   *)
(* has no sibling before or after it.                                       *)
C21_ChildrenOnce ==
    \A i \in DOMAIN calls :
        calls[i].fn = "RootLayout" =>
            /\ calls[i].result.type = "html"
            /\ Len(calls[i].result.children) = 1
            /\ calls[i].result.children[1].type = "body"
            /\ calls[i].result.children[1].children = << calls[i].props.children >>
            /\ Occurrences(calls[i].props.children, calls[i].result) = 1

\* RootLayout has been invoked with a fragment of two nodes as children, and
\* with the Home Page's output as children
C21_Witness ==
    /\ \E i \in DOMAIN calls :
           /\ calls[i].fn = "RootLayout"
           /\ calls[i].props.children.type = "#fragment"
           /\ Len(calls[i].props.children.children) = 2
           /\ calls[i].result.type = "html"
    /\ \E i \in DOMAIN calls :
           /\ calls[i].fn = "RootLayout"
           /\ calls[i].props.children = HomePage
           /\ calls[i].result.type = "html"

\* the children values that hold nothing to render
EmptyChildren == { Null, Undefined, Fragment(<<>>) }

RECURSIVE RendersNothing(_)
\* the node puts no element and no text into the document: null, undefined
\* and booleans are left out of the output, and a fragment contributes what
\* its children do
RendersNothing(node) ==
    \/ node.type \in {"#null", "#undefined", "#boolean"}
    \/ /\ node.type = "#fragment"
       /\ \A k \in DOMAIN node.children : RendersNothing(node.children[k])

(* C22: RootLayout invoked with null, undefined or an empty fragment as     *)
(* children returns, without raising, the complete shell: an html element   *)
(* with lang "en" whose only child is a body element with the class         *)
(* "antialiased", and nothing in that body puts content into the document.  *)
C22_EmptyChildrenShell ==
    \A i \in DOMAIN calls :
        (calls[i].fn = "RootLayout" /\ calls[i].props.children \in EmptyChildren) =>
            /\ calls[i].result # Thrown
            /\ calls[i].result.type = "html"
            /\ calls[i].result.props = [lang |-> "en"]
            /\ Len(calls[i].result.children) = 1
            /\ calls[i].result.children[1].type = "body"
            /\ calls[i].result.children[1].props = [className |-> "antialiased"]
            /\ \A k \in DOMAIN calls[i].result.children[1].children :
                   RendersNothing(calls[i].result.children[1].children[k])

\* RootLayout has returned for each of the three empty children values
C22_Witness ==
    \A v \in EmptyChildren :
        \E i \in DOMAIN calls :
            /\ calls[i].fn = "RootLayout"
            /\ calls[i].props.children = v
            /\ calls[i].result.type = "html"

====
